---- MODULE Spec2Model ----
(***************************************************************************)
(* Model of lib/sbi/sbi_fifo.c: a fixed-capacity ring buffer of            *)
(* fixed-width entries whose every operation runs under one spin lock.     *)
(* Callers (harts) are processes; each holds a stack of call frames so     *)
(* that the function handed to sbi_fifo_inplace_update can call back into  *)
(* the fifo while the outer call still holds the lock.                     *)
(***************************************************************************)
EXTENDS Integers, Sequences, FiniteSets, TLC

VARIABLES
    fifo,    \* the struct sbi_fifo instances, by handle: a record with
             \*   queue        the bytes; offset k is queue[k + 1]
             \*   num_entries  (u16) fixed by sbi_fifo_init
             \*   entry_size   (u16) fixed by sbi_fifo_init
             \*   qlock        0 unlocked, else the caller holding it
             \*   avail, tail  (u16)
    stack,   \* per caller: its call frames, innermost last
    ghost    \* history, by handle: the entries enqueued and not yet
             \* dequeued, oldest first

vars == <<fifo, stack, ghost>>

----------------------------------------------------------------------------
\* Bounds of the model.

NumProcs == 2
MaxEntries == 3
NumVals == 2
MaxDepth == 2
MaxEntriesLive == 2

MaxEntriesTwo == 1

Procs == 1..NumProcs
EntrySizes == {2, 3}

----------------------------------------------------------------------------
\* Result codes (sbi_error.h, sbi_fifo.h).

SBI_EINVAL == -3
SBI_ENOSPC == -1005
SBI_ENOENT == -1009

SBI_FIFO_SKIP == 0
SBI_FIFO_UPDATED == 1
SBI_FIFO_UNCHANGED == 2

\* An absent pointer; an absent handle is 0.
NULL == <<>>

\* The values a caller-supplied fptr may return: it is an int function.
FptrRets == {SBI_FIFO_SKIP, SBI_FIFO_UPDATED, SBI_FIFO_UNCHANGED, SBI_EINVAL}

----------------------------------------------------------------------------
\* Integer widths and raw memory.

U16(x) == x % 65536

RECURSIVE Pow256(_)
Pow256(n) == IF n = 0 THEN 1 ELSE 256 * Pow256(n - 1)

RECURSIVE LoadLE(_)
\* *(uN *)p: the little-endian integer held in the bytes.
LoadLE(bytes) ==
    IF bytes = <<>> THEN 0
    ELSE bytes[1] + 256 * LoadLE(Tail(bytes))

\* *(uN *)p = v: the n bytes of v, least significant first.
StoreLE(v, n) == [j \in 1..n |-> (v \div Pow256(j - 1)) % 256]

\* sbi_memcpy(dst, src, n): byte after byte.
Memcpy(src, n) == [j \in 1..n |-> src[j]]

\* As CopyEntry, every native-width case copying through a char pointer.
CopyEntryNarrow(src, es) ==
    IF es \in {1, 2, 4, 8} THEN StoreLE(LoadLE(src) % 256, es)
    ELSE Memcpy(src, es)

\* The switch on entry_size: a native-width load/store for 1, 2, 4 and 8,
\* otherwise sbi_memcpy.
CopyEntry(src, es) ==
    IF es \in {1, 2, 4, 8} THEN StoreLE(LoadLE(src), es) ELSE Memcpy(src, es)

\* The es bytes at fifo->queue + idx * es.
Slot(q, idx, es) == [j \in 1..es |-> q[idx * es + j]]

\* q with the es bytes at fifo->queue + idx * es replaced.
WriteSlot(q, idx, es, bytes) ==
    [k \in 1..Len(q) |->
        IF k > idx * es /\ k <= idx * es + es THEN bytes[k - idx * es] ELSE q[k]]

\* sbi_memset(fifo->queue, 0, size).
Memset0(q, size) == [k \in 1..Len(q) |-> IF k <= size THEN 0 ELSE q[k]]

\* The entries callers pass in: es bytes, never all zero, bytes differing.
Payload(v, es) == [j \in 1..es |-> (v + j - 1) % 256]

Payloads(es) == {Payload(v, es) : v \in 1..NumVals}

----------------------------------------------------------------------------
\* sbi_fifo_init.

\* The struct after sbi_fifo_init(fifo, queue_mem, entries, entry_size).
FifoInit(entries, es) ==
    [queue |-> [k \in 1..(entries * es) |-> 0],
     num_entries |-> entries,
     entry_size |-> es,
     qlock |-> 0,
     avail |-> 0,
     tail |-> 0]

Geometries == (1..MaxEntries) \X EntrySizes

\* The fifos handles initialised, each with a geometry of its own.
InitFifos(handles) ==
    /\ fifo \in [handles -> {FifoInit(g[1], g[2]) : g \in Geometries}]
    /\ stack = [p \in Procs |-> <<>>]
    /\ ghost = [h \in handles |-> <<>>]

\* One fifo shared by all callers.
Init == InitFifos({1})

Handles == DOMAIN fifo

----------------------------------------------------------------------------
\* Call frames.

Ops == {"avail", "is_full", "is_empty", "reset", "inplace_update",
        "enqueue", "dequeue"}

\* History of a call: the struct and *data as they were when the call got
\* the lock.
NoSnap == [fifo |-> FifoInit(0, 0), data |-> NULL]

\* As NullRet, sbi_fifo_reset returning true for an absent fifo too.
NullRetResetTrue(op) ==
    CASE op = "avail" -> 0
      [] op = "reset" -> 1
      [] op = "inplace_update" -> SBI_FIFO_UNCHANGED
      [] OTHER -> SBI_EINVAL

\* What each operation returns for an absent argument.
NullRet(op) ==
    CASE op = "avail" -> 0
      [] op = "reset" -> 0
      [] op = "inplace_update" -> SBI_FIFO_UNCHANGED
      [] OTHER -> SBI_EINVAL

\* As ArgAbsent, sbi_fifo_inplace_update testing !fifo alone.
ArgAbsentNoContext(op, h, data, in) ==
    CASE op \in {"enqueue", "dequeue"} -> h = 0 \/ data = NULL
      [] OTHER -> h = 0

\* if (!fifo ...) return ...: the test each operation opens with.
ArgAbsent(op, h, data, in) ==
    CASE op \in {"enqueue", "dequeue"} -> h = 0 \/ data = NULL
      [] op = "inplace_update" -> h = 0 \/ ~in
      [] OTHER -> h = 0

\* A call on handle h (0: absent) with its pointers, after that test: it
\* returned at once, or goes on to spin_lock. ret starts as line 147 sets
\* it for inplace_update. History: visited, the indexes fptr was called
\* on; last, what fptr returned last; stopped, whether fptr has returned
\* skip or updated; reentered, whether fptr has called an operation on the
\* fifo being updated; snap.
NewFrame(op, h, data, in) ==
    [pc |-> IF ArgAbsent(op, h, data, in) THEN "done" ELSE "lock",
     op |-> op, fifo |-> h, data |-> data, in |-> in,
     i |-> 0, index |-> 0,
     ret |-> IF ArgAbsent(op, h, data, in) THEN NullRet(op)
             ELSE IF op = "inplace_update" THEN SBI_FIFO_UNCHANGED ELSE 0,
     visited |-> <<>>, last |-> SBI_FIFO_UNCHANGED, stopped |-> FALSE,
     reentered |-> FALSE, snap |-> NoSnap]

\* The pointers a call may pass: each present or absent, and only those
\* the operation takes.
DataArgs(op) ==
    IF op \in {"enqueue", "dequeue"}
    THEN {NULL} \cup UNION {Payloads(es) : es \in EntrySizes}
    ELSE {NULL}

InArgs(op) == IF op = "inplace_update" THEN BOOLEAN ELSE {FALSE}

\* A caller's entry buffer has the entry_size of the fifo it is passed to
\* (of some fifo, when the handle is absent).
Fits(h, data) ==
    \/ data = NULL
    \/ h # 0 /\ Len(data) = fifo[h].entry_size
    \/ h = 0 /\ \E g \in DOMAIN fifo : Len(data) = fifo[g].entry_size

ArgFrames(ops) ==
    {f \in UNION {{NewFrame(op, h, data, in) :
                     h \in {0} \cup Handles,
                     data \in DataArgs(op), in \in InArgs(op)} : op \in ops} :
        Fits(f.fifo, f.data)}

Depth(p) == Len(stack[p])

Top(p) == stack[p][Len(stack[p])]

At(p, pc) == stack[p] # <<>> /\ Top(p).pc = pc

SetTop(p, f) == [stack EXCEPT ![p] = [@ EXCEPT ![Len(@)] = f]]

\* The fifo the innermost call of p works on.
H(p) == Top(p).fifo

F(p) == fifo[H(p)]

----------------------------------------------------------------------------
\* Calls, returns, and the steps every operation shares.

\* A caller invokes one of the operations ops.
Call(p, ops) ==
    /\ stack[p] = <<>>
    /\ \E f \in ArgFrames(ops) : stack' = [stack EXCEPT ![p] = <<f>>]
    /\ UNCHANGED <<fifo, ghost>>

Pop(p) == [stack EXCEPT ![p] = SubSeq(@, 1, Len(@) - 1)]

\* A call that found an argument absent is back in its caller.
Return(p) ==
    /\ At(p, "done")
    /\ stack' = Pop(p)
    /\ UNCHANGED <<fifo, ghost>>

\* As Lock, the call of spin_lock left out.
LockLeftOut(p) ==
    /\ At(p, "lock")
    /\ stack' = SetTop(p, [Top(p) EXCEPT
            !.pc = Top(p).op,
            !.snap = [fifo |-> F(p), data |-> Top(p).data]])
    /\ UNCHANGED <<fifo, ghost>>

\* spin_lock(&fifo->qlock) gets the lock only when it is free.
SpinLockFree(l) == l = 0

\* As Lock, every fifo's qlock being one and the same lock.
LockShared(p) ==
    /\ At(p, "lock")
    /\ \A h \in Handles : SpinLockFree(fifo[h].qlock)
    /\ fifo' = [fifo EXCEPT ![H(p)].qlock = p]
    /\ stack' = SetTop(p, [Top(p) EXCEPT
            !.pc = Top(p).op,
            !.snap = [fifo |-> F(p), data |-> Top(p).data]])
    /\ UNCHANGED ghost

Lock(p) ==
    /\ At(p, "lock")
    /\ SpinLockFree(F(p).qlock)
    /\ fifo' = [fifo EXCEPT ![H(p)].qlock = p]
    /\ stack' = SetTop(p, [Top(p) EXCEPT
            !.pc = Top(p).op,
            !.snap = [fifo |-> F(p), data |-> Top(p).data]])
    /\ UNCHANGED ghost

\* spin_unlock(&fifo->qlock); return ret.
Unlock(p) ==
    /\ At(p, "unlock")
    /\ fifo' = [fifo EXCEPT ![H(p)].qlock = 0]
    /\ stack' = Pop(p)
    /\ UNCHANGED ghost

\* The next statement of p's innermost call, which changes no fifo.
Goto(p, f) ==
    /\ stack' = SetTop(p, f)
    /\ UNCHANGED <<fifo, ghost>>

----------------------------------------------------------------------------
\* sbi_fifo_avail, sbi_fifo_is_full, sbi_fifo_is_empty, sbi_fifo_reset.

\* As IsFull, with > for ==.
IsFullLate(a, n) == a > n

\* __sbi_fifo_is_full.
IsFull(a, n) == a = n

\* As IsEmpty, with <= 1 for == 0.
IsEmptyBelowTwo(a) == a <= 1

\* __sbi_fifo_is_empty.
IsEmpty(a) == a = 0

\* A C bool as the int the caller gets.
Bool(b) == IF b THEN 1 ELSE 0

\* ret = fifo->avail.
AvailRead(p) ==
    /\ At(p, "avail")
    /\ Goto(p, [Top(p) EXCEPT !.pc = "unlock", !.ret = F(p).avail])

\* ret = __sbi_fifo_is_full(fifo).
IsFullRead(p) ==
    /\ At(p, "is_full")
    /\ Goto(p, [Top(p) EXCEPT
            !.pc = "unlock",
            !.ret = Bool(IsFull(F(p).avail, F(p).num_entries))])

\* ret = __sbi_fifo_is_empty(fifo).
IsEmptyRead(p) ==
    /\ At(p, "is_empty")
    /\ Goto(p, [Top(p) EXCEPT
            !.pc = "unlock", !.ret = Bool(IsEmpty(F(p).avail))])

\* As ResetFifo, the size to clear counted in entries, not bytes.
ResetFifoShort(f) ==
    [f EXCEPT !.avail = 0, !.tail = 0,
              !.queue = Memset0(f.queue, f.num_entries)]

\* __sbi_fifo_reset.
ResetFifo(f) ==
    [f EXCEPT !.avail = 0, !.tail = 0,
              !.queue = Memset0(f.queue, f.num_entries * f.entry_size)]

\* __sbi_fifo_reset(fifo); sbi_fifo_reset then returns true.
Reset(p) ==
    /\ At(p, "reset")
    /\ fifo' = [fifo EXCEPT ![H(p)] = ResetFifo(@)]
    /\ ghost' = [ghost EXCEPT ![H(p)] = <<>>]
    /\ stack' = SetTop(p, [Top(p) EXCEPT !.pc = "unlock", !.ret = Bool(TRUE)])

----------------------------------------------------------------------------
\* sbi_fifo_enqueue.

\* As EnqHead, the wrap tested with > for >=.
EnqHeadLate(t, a, n) ==
    LET head == t + a IN
    IF head > n THEN head - n ELSE head

\* head = (u32)fifo->tail + fifo->avail; if (head >= n) head = head - n.
\* The sum of two u16 values is below 2^17 and cannot wrap the u32.
EnqHead(t, a, n) ==
    LET head == t + a IN
    IF head >= n THEN head - n ELSE head

\* As EnqFull, returning SBI_ENOSPC with the spin_unlock left out.
EnqFullNoUnlock(p) ==
    /\ At(p, "enqueue")
    /\ stack' = IF IsFull(F(p).avail, F(p).num_entries)
                THEN Pop(p)
                ELSE SetTop(p, [Top(p) EXCEPT !.pc = "enq_copy"])
    /\ UNCHANGED <<fifo, ghost>>

\* if (__sbi_fifo_is_full(fifo)) { spin_unlock; return SBI_ENOSPC; }
EnqFull(p) ==
    /\ At(p, "enqueue")
    /\ Goto(p, IF IsFull(F(p).avail, F(p).num_entries)
               THEN [Top(p) EXCEPT !.pc = "unlock", !.ret = SBI_ENOSPC]
               ELSE [Top(p) EXCEPT !.pc = "enq_copy"])

\* As EnqCopy, the lock let go between the copy and avail++.
EnqCopyUnlocks(p) ==
    /\ At(p, "enq_copy")
    /\ fifo' = [fifo EXCEPT
            ![H(p)].queue =
                WriteSlot(@, EnqHead(F(p).tail, F(p).avail, F(p).num_entries),
                          F(p).entry_size,
                          CopyEntry(Top(p).data, F(p).entry_size)),
            ![H(p)].qlock = 0]
    /\ stack' = SetTop(p, [Top(p) EXCEPT !.pc = "enq_inc"])
    /\ UNCHANGED ghost

\* __sbi_fifo_enqueue: the copy of *data into the head slot.
EnqCopy(p) ==
    /\ At(p, "enq_copy")
    /\ fifo' = [fifo EXCEPT ![H(p)].queue =
            WriteSlot(@, EnqHead(F(p).tail, F(p).avail, F(p).num_entries),
                      F(p).entry_size,
                      CopyEntry(Top(p).data, F(p).entry_size))]
    /\ stack' = SetTop(p, [Top(p) EXCEPT !.pc = "enq_inc"])
    /\ UNCHANGED ghost

\* fifo->avail++: the entry is in the fifo; sbi_fifo_enqueue will return 0.
EnqInc(p) ==
    /\ At(p, "enq_inc")
    /\ fifo' = [fifo EXCEPT ![H(p)].avail = U16(@ + 1)]
    /\ ghost' = [ghost EXCEPT ![H(p)] = Append(@, Top(p).data)]
    /\ stack' = SetTop(p, [Top(p) EXCEPT !.pc = "unlock", !.ret = 0])

----------------------------------------------------------------------------
\* sbi_fifo_dequeue.

\* As DeqEmpty, the tail slot copied to *data ahead of the test.
DeqEmptyCopyFirst(p) ==
    /\ At(p, "dequeue")
    /\ LET f == [Top(p) EXCEPT !.data =
                CopyEntry(Slot(F(p).queue, F(p).tail, F(p).entry_size),
                          F(p).entry_size)] IN
        Goto(p, IF IsEmpty(F(p).avail)
                THEN [f EXCEPT !.pc = "unlock", !.ret = SBI_ENOENT]
                ELSE [f EXCEPT !.pc = "deq_copy"])

\* As DeqEmpty, the lock let go once the test has found an entry.
DeqEmptyWindow(p) ==
    /\ At(p, "dequeue")
    /\ fifo' = IF IsEmpty(F(p).avail) THEN fifo
               ELSE [fifo EXCEPT ![H(p)].qlock = 0]
    /\ stack' = SetTop(p, IF IsEmpty(F(p).avail)
               THEN [Top(p) EXCEPT !.pc = "unlock", !.ret = SBI_ENOENT]
               ELSE [Top(p) EXCEPT !.pc = "deq_copy"])
    /\ UNCHANGED ghost

\* if (__sbi_fifo_is_empty(fifo)) { spin_unlock; return SBI_ENOENT; }
DeqEmpty(p) ==
    /\ At(p, "dequeue")
    /\ Goto(p, IF IsEmpty(F(p).avail)
               THEN [Top(p) EXCEPT !.pc = "unlock", !.ret = SBI_ENOENT]
               ELSE [Top(p) EXCEPT !.pc = "deq_copy"])

\* The copy of the tail slot to *data.
DeqCopy(p) ==
    /\ At(p, "deq_copy")
    /\ Goto(p, [Top(p) EXCEPT
            !.pc = "deq_dec",
            !.data = CopyEntry(Slot(F(p).queue, F(p).tail, F(p).entry_size),
                               F(p).entry_size)])

\* As DeqDec, the slot that was copied out zeroed as well.
DeqDecClears(p) ==
    /\ At(p, "deq_dec")
    /\ fifo' = [fifo EXCEPT
            ![H(p)].avail = U16(@ - 1),
            ![H(p)].queue = WriteSlot(@, F(p).tail, F(p).entry_size,
                                      [j \in 1..F(p).entry_size |-> 0])]
    /\ ghost' = [ghost EXCEPT ![H(p)] = IF @ = <<>> THEN @ ELSE Tail(@)]
    /\ stack' = SetTop(p, [Top(p) EXCEPT !.pc = "deq_tail"])

\* fifo->avail--: the oldest entry has left the fifo.
DeqDec(p) ==
    /\ At(p, "deq_dec")
    /\ fifo' = [fifo EXCEPT ![H(p)].avail = U16(@ - 1)]
    /\ ghost' = [ghost EXCEPT ![H(p)] = IF @ = <<>> THEN @ ELSE Tail(@)]
    /\ stack' = SetTop(p, [Top(p) EXCEPT !.pc = "deq_tail"])

\* As NextTail, the wrap to 0 left out.
NextTailNoWrap(t, n) == U16(t + 1)

\* fifo->tail++; if (fifo->tail >= fifo->num_entries) fifo->tail = 0.
NextTail(t, n) == IF U16(t + 1) >= n THEN 0 ELSE U16(t + 1)

\* As DeqTail, fifo->tail++ left out.
DeqTailStays(p) ==
    /\ At(p, "deq_tail")
    /\ Goto(p, [Top(p) EXCEPT !.pc = "unlock", !.ret = 0])

\* The tail moves on; sbi_fifo_dequeue will return 0.
DeqTail(p) ==
    /\ At(p, "deq_tail")
    /\ fifo' = [fifo EXCEPT ![H(p)].tail = NextTail(@, F(p).num_entries)]
    /\ stack' = SetTop(p, [Top(p) EXCEPT !.pc = "unlock", !.ret = 0])
    /\ UNCHANGED ghost

----------------------------------------------------------------------------
\* sbi_fifo_inplace_update.

\* if (__sbi_fifo_is_empty(fifo)) { spin_unlock; return ret; }
IpuEmpty(p) ==
    /\ At(p, "inplace_update")
    /\ Goto(p, IF IsEmpty(F(p).avail)
               THEN [Top(p) EXCEPT !.pc = "unlock"]
               ELSE [Top(p) EXCEPT !.pc = "ipu_loop"])

\* index = fifo->tail + i; if (index >= n) index -= n.
IpuIndex(t, i, n) == IF t + i >= n THEN t + i - n ELSE t + i

\* As IpuLoop, the lock dropped while fptr runs.
IpuLoopUnlocked(p) ==
    /\ At(p, "ipu_loop")
    /\ LET f == Top(p)
           index == IpuIndex(F(p).tail, f.i, F(p).num_entries) IN
        stack' = SetTop(p, IF f.i < F(p).avail
                THEN [f EXCEPT !.pc = "ipu_call", !.index = index,
                               !.visited = Append(@, index)]
                ELSE [f EXCEPT !.pc = "unlock"])
    /\ fifo' = IF Top(p).i < F(p).avail
               THEN [fifo EXCEPT ![H(p)].qlock = 0] ELSE fifo
    /\ UNCHANGED ghost

\* for (i = 0; i < fifo->avail; i++): the test, then the entry for fptr.
IpuLoop(p) ==
    /\ At(p, "ipu_loop")
    /\ LET f == Top(p)
           index == IpuIndex(F(p).tail, f.i, F(p).num_entries) IN
        Goto(p, IF f.i < F(p).avail
                THEN [f EXCEPT !.pc = "ipu_call", !.index = index,
                               !.visited = Append(@, index)]
                ELSE [f EXCEPT !.pc = "unlock"])

\* As IpuBreak, the test for SBI_FIFO_SKIP left out.
IpuBreakUpdatedOnly(r) == r = SBI_FIFO_UPDATED

\* if (ret == SBI_FIFO_SKIP || ret == SBI_FIFO_UPDATED) break.
IpuBreak(r) == r = SBI_FIFO_SKIP \/ r = SBI_FIFO_UPDATED

\* As IpuAfter, fptr's result kept in ret only when it ends the scan.
IpuAfterKeepsStop(f, r) ==
    IF IpuBreak(r)
    THEN [f EXCEPT !.pc = "unlock", !.ret = r]
    ELSE [f EXCEPT !.pc = "ipu_loop", !.i = f.i + 1]

\* Where the loop goes once fptr has returned r: out, or on to i++.
IpuAfter(f, r) ==
    IF IpuBreak(r)
    THEN [f EXCEPT !.pc = "unlock", !.ret = r]
    ELSE [f EXCEPT !.pc = "ipu_loop", !.ret = r, !.i = f.i + 1]

\* ret = fptr(in, entry): fptr returns r, having left the entry alone
\* (bytes = NULL) or written bytes into it.
FptrReturn(p) ==
    /\ At(p, "ipu_call")
    /\ \E r \in FptrRets, bytes \in {NULL} \cup Payloads(F(p).entry_size) :
        LET f == Top(p) IN
        /\ fifo' = IF bytes = NULL THEN fifo
                   ELSE [fifo EXCEPT ![H(p)].queue =
                            WriteSlot(@, f.index, F(p).entry_size, bytes)]
        /\ ghost' = IF bytes = NULL \/ f.i + 1 > Len(ghost[H(p)]) THEN ghost
                    ELSE [ghost EXCEPT ![H(p)][f.i + 1] = bytes]
        /\ stack' = SetTop(p, [IpuAfter(f, r) EXCEPT
                !.last = r,
                !.stopped = r \in {SBI_FIFO_SKIP, SBI_FIFO_UPDATED}])

\* fptr calls one of the fifo's operations before it returns.
Reenter(p) ==
    /\ At(p, "ipu_call")
    /\ Depth(p) < MaxDepth
    /\ \E f \in ArgFrames(Ops) :
        stack' = [stack EXCEPT ![p] =
            Append([@ EXCEPT ![Len(@)].reentered = @ \/ f.fifo = H(p)], f)]
    /\ UNCHANGED <<fifo, ghost>>

----------------------------------------------------------------------------
\* Specifications.

Observe(p) == AvailRead(p) \/ IsFullRead(p) \/ IsEmptyRead(p)

Enqueue(p) == EnqFull(p) \/ EnqCopy(p) \/ EnqInc(p)

Dequeue(p) == DeqEmpty(p) \/ DeqCopy(p) \/ DeqDec(p) \/ DeqTail(p)

InplaceUpdate(p) == IpuEmpty(p) \/ IpuLoop(p) \/ FptrReturn(p)

\* The statements of the operations, fptr keeping to its rule.
Step(p) ==
    \/ Return(p)
    \/ Lock(p)
    \/ Unlock(p)
    \/ Observe(p)
    \/ Reset(p)
    \/ Enqueue(p)
    \/ Dequeue(p)
    \/ InplaceUpdate(p)

\* Every operation, from several callers.
Next == \E p \in Procs : Call(p, Ops) \/ Step(p)

Spec == Init /\ [][Next]_vars

\* The same, with fptr free to call back into the fifo. Whether the lock
\* is ever released does not depend on the width of an entry: one width.
NextReenter == \E p \in Procs : Call(p, Ops) \/ Step(p) \/ Reenter(p)

InitReenter == Init /\ \A h \in Handles : fifo[h].entry_size = 2

SpecReenter == InitReenter /\ [][NextReenter]_vars

\* One caller alone, enqueueing, dequeueing and resetting.
NextSeq ==
    \/ Call(1, {"enqueue", "dequeue", "reset"})
    \/ Return(1)
    \/ Lock(1)
    \/ Unlock(1)
    \/ Reset(1)
    \/ Enqueue(1)
    \/ Dequeue(1)

SpecSeq == Init /\ [][NextSeq]_vars

\* Several callers, enqueueing and dequeueing in parallel.
NextConc ==
    \E p \in Procs :
        \/ Call(p, {"enqueue", "dequeue"})
        \/ Return(p)
        \/ Lock(p)
        \/ Unlock(p)
        \/ Enqueue(p)
        \/ Dequeue(p)

SpecConc == Init /\ [][NextConc]_vars

\* A caller that is in an operation goes on executing it, and the lock is
\* fair: a caller that finds it free again and again gets it.
Fairness == \A p \in Procs : WF_vars(Step(p)) /\ SF_vars(Lock(p))

InitLive == Init /\ \A h \in Handles : fifo[h].num_entries <= MaxEntriesLive

SpecLive == InitLive /\ [][Next]_vars /\ Fairness

\* Two fifos, A (handle 1) and B (handle 2), each set up by its own
\* sbi_fifo_init with memory of its own. A call on B goes on executing and
\* B's lock is fair; a call on A may stop for good at any statement, among
\* them inside fptr with A's lock held.
InitTwo ==
    /\ InitFifos({1, 2})
    /\ \A h \in Handles :
        fifo[h].num_entries <= MaxEntriesTwo /\ fifo[h].entry_size = 2

StepOn(p, h) == stack[p] # <<>> /\ H(p) = h /\ Step(p)

LockOn(p, h) == stack[p] # <<>> /\ H(p) = h /\ Lock(p)

FairnessB == \A p \in Procs : WF_vars(StepOn(p, 2)) /\ SF_vars(LockOn(p, 2))

SpecTwo == InitTwo /\ [][Next]_vars /\ FairnessB

----------------------------------------------------------------------------
\* Properties.

\* p's innermost call holds the lock.
InCS(p) == stack[p] # <<>> /\ Top(p).pc \notin {"lock", "done"}

InOp(p, op) == InCS(p) /\ Top(p).op = op

\* The struct as p's call found it when it got the lock.
Snap(p) == Top(p).snap.fifo

\* The entries in the count slots from tail on, wrapping, oldest first.
Occupied(f) ==
    [k \in 1..f.avail |->
        Slot(f.queue, (f.tail + k - 1) % f.num_entries, f.entry_size)]

\* The occupied region spans the end of the buffer.
Wrapped(f) == f.tail + f.avail > f.num_entries

\* C1: a dequeue hands back the entry passed to the oldest enqueue not yet
\* dequeued, so the k-th successful dequeue since sbi_fifo_init or the last
\* reset returns the entry of the k-th successful enqueue.
C1_FifoOrder ==
    \A p \in Procs :
        At(p, "deq_dec") =>
            /\ ghost[H(p)] # <<>>
            /\ Top(p).data = ghost[H(p)][1]

\* C1 witness: a dequeue from a fifo whose entries span the end of the
\* buffer, the entry behind it being a different one.
C1_Witness ==
    \E p \in Procs :
        /\ At(p, "deq_dec")
        /\ Wrapped(F(p))
        /\ Len(ghost[H(p)]) >= 2
        /\ ghost[H(p)][1] # ghost[H(p)][2]

\* C2: 0 <= avail <= num_entries and 0 <= tail < num_entries always; and
\* between operations (the lock free) the entries in the fifo are those in
\* the avail consecutive slots from tail on, modulo num_entries.
C2_RingInvariant ==
    \A h \in Handles :
        /\ 0 <= fifo[h].avail /\ fifo[h].avail <= fifo[h].num_entries
        /\ 0 <= fifo[h].tail /\ fifo[h].tail < fifo[h].num_entries
        /\ fifo[h].qlock = 0 => Occupied(fifo[h]) = ghost[h]

\* C2 witness: between operations, a full fifo whose tail is not 0.
C2_Witness ==
    \E h \in Handles :
        /\ fifo[h].qlock = 0
        /\ fifo[h].tail > 0
        /\ fifo[h].avail = fifo[h].num_entries
        /\ fifo[h].num_entries > 1

\* C3: with callers enqueueing and dequeueing in parallel, avail stays
\* within 0..num_entries, every dequeue returns the entry whose enqueue took
\* effect first among those not yet dequeued, and between operations the
\* fifo holds exactly the entries enqueued and not dequeued, in that order.
C3_Concurrent ==
    \A h \in Handles :
        /\ fifo[h].avail \in 0..fifo[h].num_entries
        /\ \A p \in Procs :
            (At(p, "deq_dec") /\ H(p) = h) =>
                (Len(ghost[h]) > 0 /\ Top(p).data = Head(ghost[h]))
        /\ fifo[h].qlock = 0 =>
                (Len(ghost[h]) = fifo[h].avail /\ Occupied(fifo[h]) = ghost[h])

\* C3 witness: one caller dequeues the older of two different entries
\* while another caller waits for the lock to enqueue.
C3_Witness ==
    \E p, q \in Procs :
        /\ p # q
        /\ At(p, "deq_dec")
        /\ At(q, "lock") /\ Top(q).op = "enqueue"
        /\ Len(ghost[H(p)]) >= 2
        /\ ghost[H(p)][1] # ghost[H(p)][2]

\* C4: an enqueue that found the fifo full changes nothing of it and
\* returns SBI_ENOSPC.
C4_EnqueueFull ==
    \A p \in Procs :
        (InOp(p, "enqueue") /\ Snap(p).avail = Snap(p).num_entries) =>
            /\ F(p) = [Snap(p) EXCEPT !.qlock = p]
            /\ Top(p).pc \in {"enqueue", "unlock"}
            /\ Top(p).pc = "unlock" => Top(p).ret = SBI_ENOSPC

\* C4 witness: an enqueue about to return from a full fifo.
C4_Witness ==
    \E p \in Procs :
        /\ At(p, "unlock") /\ Top(p).op = "enqueue"
        /\ F(p).avail = F(p).num_entries
        /\ Top(p).ret = SBI_ENOSPC

\* C5: a dequeue that found the fifo empty changes nothing of it, leaves
\* *data as it was and returns SBI_ENOENT.
C5_DequeueEmpty ==
    \A p \in Procs :
        (InOp(p, "dequeue") /\ Snap(p).avail = 0) =>
            /\ F(p) = [Snap(p) EXCEPT !.qlock = p]
            /\ Top(p).data = Top(p).snap.data
            /\ Top(p).pc \in {"dequeue", "unlock"}
            /\ Top(p).pc = "unlock" => Top(p).ret = SBI_ENOENT

\* C5 witness: a dequeue about to return from an empty fifo whose tail slot
\* holds a stale entry other than what *data holds.
C5_Witness ==
    \E p \in Procs :
        /\ At(p, "unlock") /\ Top(p).op = "dequeue"
        /\ F(p).avail = 0
        /\ Top(p).ret = SBI_ENOENT
        /\ Slot(F(p).queue, F(p).tail, F(p).entry_size) # Top(p).data

\* C6: once a reset has run the fifo is as sbi_fifo_init left it: avail and
\* tail 0, every byte of the num_entries * entry_size region 0,
\* num_entries and entry_size as before.
C6_Reset ==
    \A p \in Procs :
        (At(p, "unlock") /\ Top(p).op = "reset") =>
            /\ [F(p) EXCEPT !.qlock = 0] =
                    FifoInit(Snap(p).num_entries, Snap(p).entry_size)
            /\ \A k \in 1..(F(p).num_entries * F(p).entry_size) :
                    F(p).queue[k] = 0
            /\ ghost[H(p)] = <<>>

\* C6 witness: a reset of a full fifo whose tail was not 0.
C6_Witness ==
    \E p \in Procs :
        /\ At(p, "unlock") /\ Top(p).op = "reset"
        /\ Snap(p).tail > 0
        /\ Snap(p).avail = Snap(p).num_entries

\* fptr, run by p's inplace_update, is inside an operation it called on
\* the fifo being updated, and that operation is at its spin_lock.
Stuck(p) ==
    /\ Depth(p) >= 2
    /\ Top(p).fifo = stack[p][1].fifo
    /\ Top(p).pc = "lock"

\* p is in an inplace_update whose fptr has called an operation on the fifo
\* being updated.
Reentered(p) == stack[p] # <<>> /\ stack[p][1].reentered

C8_LockReleased ==
    /\ [](\A p \in Procs :
            stack[p] = <<>> => \A h \in Handles : fifo[h].qlock # p)
    /\ \A p \in Procs : (stack[p] # <<>>) ~> (stack[p] = <<>>)

\* C8 witness: one caller holds the lock on the path of an enqueue that
\* found the fifo full and is about to release it, while another caller
\* waits at spin_lock.
C8_Witness ==
    \E p, q \in Procs :
        /\ p # q
        /\ At(p, "lock")
        /\ At(q, "unlock") /\ Top(q).op = "enqueue"
        /\ Top(q).ret = SBI_ENOSPC

\* C9: fptr is called on the slots tail, tail + 1, ... modulo num_entries
\* in that order, on at most avail of them and on none twice, on none when
\* the fifo is empty, and on none after it has returned skip or updated.
C9_ScanOrder ==
    \A p \in Procs :
        InOp(p, "inplace_update") =>
            LET v == Top(p).visited IN
            /\ Len(v) <= Snap(p).avail
            /\ \A k \in 1..Len(v) :
                    v[k] = (Snap(p).tail + k - 1) % Snap(p).num_entries
            /\ \A j, k \in 1..Len(v) : j # k => v[j] # v[k]
            /\ Top(p).stopped => Top(p).pc = "unlock"

\* C9 witness: fptr has stopped the scan on the second of three entries,
\* the second being past the end of the buffer.
C9_Witness ==
    \E p \in Procs :
        /\ At(p, "unlock") /\ Top(p).op = "inplace_update"
        /\ Top(p).stopped
        /\ Snap(p).avail = 3
        /\ Len(Top(p).visited) = 2
        /\ Top(p).visited[2] < Top(p).visited[1]

\* C10, as amended: inplace_update returns the skip or updated that stopped
\* the scan; SBI_FIFO_UNCHANGED when the fifo was empty; and, when the scan
\* went through all avail entries, whatever fptr returned on the last one.
C10_ScanResult ==
    \A p \in Procs :
        (At(p, "unlock") /\ Top(p).op = "inplace_update") =>
            /\ Top(p).stopped =>
                (Top(p).ret = Top(p).last
                    /\ Top(p).ret \in {SBI_FIFO_SKIP, SBI_FIFO_UPDATED})
            /\ Snap(p).avail = 0 =>
                (Top(p).ret = SBI_FIFO_UNCHANGED /\ Top(p).visited = <<>>)
            /\ (~Top(p).stopped /\ Snap(p).avail > 0) =>
                (Top(p).ret = Top(p).last
                    /\ Len(Top(p).visited) = Snap(p).avail)

\* C10 witness: a scan went through two or more entries and fptr returned,
\* on the last, a value that is none of skip, updated, unchanged.
C10_Witness ==
    \E p \in Procs :
        /\ At(p, "unlock") /\ Top(p).op = "inplace_update"
        /\ ~Top(p).stopped
        /\ Len(Top(p).visited) >= 2
        /\ Top(p).last = SBI_EINVAL

\* C10 as stated: the result is SBI_FIFO_UNCHANGED whenever no call of fptr
\* returned skip or updated, whatever fptr returned.
C10_Original ==
    \A p \in Procs :
        (At(p, "unlock") /\ Top(p).op = "inplace_update") =>
            /\ Top(p).stopped => Top(p).ret = Top(p).last
            /\ ~Top(p).stopped => Top(p).ret = SBI_FIFO_UNCHANGED

\* 0 <= avail <= num_entries and 0 <= tail < num_entries.
InRange(f) ==
    /\ 0 <= f.avail /\ f.avail <= f.num_entries
    /\ 0 <= f.tail /\ f.tail < f.num_entries

\* C11: whenever the lock of a fifo is free, the ring invariant holds and no
\* enqueue or dequeue is part-way through; a caller that has just got the
\* lock finds the slots and the count matching; and an enqueue or dequeue
\* about to return has had its whole effect (slot and avail, or avail and
\* tail, together) or none.
C11_NoPartial ==
    \A h \in Handles :
        /\ fifo[h].qlock = 0 =>
            /\ InRange(fifo[h])
            /\ Len(ghost[h]) = fifo[h].avail
            /\ Occupied(fifo[h]) = ghost[h]
            /\ \A p \in Procs :
                (stack[p] # <<>> /\ H(p) = h) => Top(p).pc \in {"lock", "done"}
        /\ \A p \in Procs :
            (stack[p] # <<>> /\ H(p) = h) =>
                /\ Top(p).pc \in Ops =>
                    /\ InRange(F(p))
                    /\ Len(ghost[h]) = F(p).avail
                    /\ Occupied(F(p)) = ghost[h]
                /\ (Top(p).pc = "unlock" /\ Top(p).op = "enqueue") =>
                    \/ /\ Top(p).ret = 0
                       /\ F(p).avail = Snap(p).avail + 1
                       /\ F(p).tail = Snap(p).tail
                       /\ Occupied(F(p)) = Append(Occupied(Snap(p)), Top(p).data)
                    \/ /\ Top(p).ret # 0
                       /\ F(p) = [Snap(p) EXCEPT !.qlock = p]
                /\ (Top(p).pc = "unlock" /\ Top(p).op = "dequeue") =>
                    \/ /\ Top(p).ret = 0
                       /\ F(p).avail = Snap(p).avail - 1
                       /\ F(p).tail = (Snap(p).tail + 1) % Snap(p).num_entries
                       /\ Occupied(F(p)) = Tail(Occupied(Snap(p)))
                    \/ /\ Top(p).ret # 0
                       /\ F(p) = [Snap(p) EXCEPT !.qlock = p]

\* C11 witness: an enqueue has written its slot and not yet counted it,
\* the tail slot being another one, while another caller waits at the
\* spin_lock of an operation on the same fifo.
C11_Witness ==
    \E p, q \in Procs :
        /\ p # q
        /\ At(p, "enq_inc")
        /\ F(p).queue # Snap(p).queue
        /\ F(p).avail > 0
        /\ At(q, "lock") /\ H(q) = H(p)

\* p makes the first or the last step of a call of one of ops in which an
\* argument is absent.
AbsentStep(p, ops) ==
    \/ /\ stack[p] = <<>>
       /\ stack'[p] # <<>>
       /\ stack'[p][1].op \in ops
       /\ stack'[p][1].pc = "done"
    \/ /\ At(p, "done")
       /\ Top(p).op \in ops
       /\ stack'[p] # stack[p]

\* C12: for an absent fifo sbi_fifo_avail returns 0, sbi_fifo_is_full and
\* sbi_fifo_is_empty return SBI_EINVAL and sbi_fifo_reset returns false;
\* sbi_fifo_enqueue and sbi_fifo_dequeue return SBI_EINVAL when the fifo or
\* data is absent. Such a call never holds a lock, changes no fifo and
\* leaves *data alone.
C12_AbsentArgs ==
    /\ [](\A p \in Procs :
            stack[p] # <<>> =>
                LET f == Top(p) IN
                /\ (f.op = "avail" /\ f.fifo = 0) =>
                        (f.pc = "done" /\ f.ret = 0)
                /\ (f.op \in {"is_full", "is_empty"} /\ f.fifo = 0) =>
                        (f.pc = "done" /\ f.ret = SBI_EINVAL)
                /\ (f.op = "reset" /\ f.fifo = 0) =>
                        (f.pc = "done" /\ f.ret = Bool(FALSE))
                /\ (f.op \in {"enqueue", "dequeue"}
                        /\ (f.fifo = 0 \/ f.data = NULL)) =>
                        (f.pc = "done" /\ f.ret = SBI_EINVAL)
                /\ (f.pc = "done" /\ f.op # "inplace_update") =>
                        /\ \A h \in Handles : fifo[h].qlock # p
                        /\ f.snap = NoSnap)
    /\ [][\A p \in Procs :
            AbsentStep(p, Ops \ {"inplace_update"}) =>
                /\ fifo' = fifo
                /\ ghost' = ghost
                /\ stack[p] # <<>> =>
                        (stack'[p] = <<>> /\ Top(p).ret = NullRet(Top(p).op))]_vars

\* C12 witness: a dequeue with data absent, of a fifo that holds an entry
\* and whose lock is free, has returned SBI_EINVAL.
C12_Witness ==
    \E p \in Procs :
        /\ At(p, "done")
        /\ Top(p).op = "dequeue"
        /\ H(p) # 0
        /\ Top(p).data = NULL
        /\ Top(p).ret = SBI_EINVAL
        /\ F(p).avail > 0
        /\ F(p).qlock = 0

\* C13: a step of a call on one fifo leaves the struct, the buffer, the
\* lock and the history of every other fifo as they were; a caller at the
\* spin_lock of a fifo whose lock is free can take it, whoever holds the
\* other locks; and every call on B returns, though calls on A may stop
\* for good with A's lock held.
C13_Independent ==
    /\ [][\A p \in Procs : \A b \in Handles :
            (stack'[p] # stack[p] /\ (stack[p] = <<>> \/ H(p) # b)) =>
                (fifo'[b] = fifo[b] /\ ghost'[b] = ghost[b])]_vars
    /\ [](\A p \in Procs :
            (At(p, "lock") /\ F(p).qlock = 0) => ENABLED Lock(p))
    /\ \A p \in Procs :
            (stack[p] # <<>> /\ H(p) = 2) ~> (stack[p] = <<>>)

\* C13 witness: one caller is inside fptr with A's lock held, A holding an
\* entry, while another caller is at the spin_lock of B, which is free.
C13_Witness ==
    \E p, q \in Procs :
        /\ p # q
        /\ At(p, "ipu_call") /\ H(p) = 1
        /\ fifo[1].qlock = p
        /\ At(q, "lock") /\ H(q) = 2
        /\ fifo[2].qlock = 0
        /\ fifo[2].avail > 0

\* C14: no two callers are between spin_lock and spin_unlock of one fifo;
\* a caller between them holds the lock, so every statement that reads or
\* writes avail, tail or a slot runs with the lock held; what the full or
\* empty test found still holds where it is acted on and where the error
\* is returned; and avail, tail and the slots of a fifo change only in a
\* step of the caller that holds its lock.
C14_MutualExclusion ==
    /\ [](\A p \in Procs :
            InCS(p) =>
                /\ F(p).qlock = p
                /\ \A q \in Procs \ {p} : InCS(q) => H(q) # H(p)
                /\ Top(p).pc \in Ops => F(p) = [Snap(p) EXCEPT !.qlock = p]
                /\ Top(p).pc \in {"enq_copy", "enq_inc"} =>
                        F(p).avail < F(p).num_entries
                /\ Top(p).pc \in {"deq_copy", "deq_dec", "ipu_call"} =>
                        F(p).avail > 0
                /\ (Top(p).pc = "unlock" /\ Top(p).ret = SBI_ENOSPC) =>
                        F(p).avail = F(p).num_entries
                /\ (Top(p).pc = "unlock" /\ Top(p).ret = SBI_ENOENT) =>
                        F(p).avail = 0)
    /\ [][\A h \in Handles :
            (fifo'[h].avail # fifo[h].avail \/ fifo'[h].tail # fifo[h].tail
                \/ fifo'[h].queue # fifo[h].queue) =>
                    \E p \in Procs :
                        /\ InCS(p) /\ H(p) = h
                        /\ fifo[h].qlock = p
                        /\ stack'[p] # stack[p]
                        /\ \A q \in Procs \ {p} : stack'[q] = stack[q]]_vars

\* C14 witness: a dequeue has found the one entry of the fifo and is about
\* to copy it, while another caller waits at the spin_lock of a dequeue of
\* the same fifo.
C14_Witness ==
    \E p, q \in Procs :
        /\ p # q
        /\ At(p, "deq_copy")
        /\ F(p).avail = 1
        /\ At(q, "lock") /\ Top(q).op = "dequeue" /\ H(q) = H(p)

\* C15: from spin_lock to spin_unlock of an inplace_update the lock stays
\* with it; no step of another caller changes the fifo or the history; its
\* own steps leave avail and tail as they were; and a slot differs from
\* what it was at spin_lock only if fptr has been called on it.
C15_UpdateAtomic ==
    /\ [](\A p \in Procs :
            InOp(p, "inplace_update") =>
                /\ F(p).qlock = p
                /\ F(p).avail = Snap(p).avail
                /\ F(p).tail = Snap(p).tail
                /\ F(p).num_entries = Snap(p).num_entries
                /\ F(p).entry_size = Snap(p).entry_size
                /\ Len(ghost[H(p)]) = Snap(p).avail
                /\ \A idx \in 0..(F(p).num_entries - 1) :
                    (\A k \in 1..Len(Top(p).visited) : Top(p).visited[k] # idx)
                        => Slot(F(p).queue, idx, F(p).entry_size)
                            = Slot(Snap(p).queue, idx, F(p).entry_size))
    /\ [][\A p \in Procs :
            InOp(p, "inplace_update") =>
                /\ stack'[p] = stack[p] =>
                    (fifo'[H(p)] = fifo[H(p)] /\ ghost'[H(p)] = ghost[H(p)])
                /\ fifo'[H(p)].avail = fifo[H(p)].avail
                /\ fifo'[H(p)].tail = fifo[H(p)].tail
                /\ Len(ghost'[H(p)]) = Len(ghost[H(p)])]_vars

\* C15 witness: fptr has been called on the first entry and rewritten it
\* and is being called on the second, while another caller waits at the
\* spin_lock of an enqueue on the same fifo.
C15_Witness ==
    \E p, q \in Procs :
        /\ p # q
        /\ At(p, "ipu_call")
        /\ Len(Top(p).visited) = 2
        /\ F(p).queue # Snap(p).queue
        /\ At(q, "lock") /\ Top(q).op = "enqueue" /\ H(q) = H(p)

\* C16: an enqueue that returns 0 has put the bytes of *data into the slot
\* (tail + avail) mod num_entries, tail and avail as at spin_lock, added 1
\* to avail and left tail, every other slot and the rest of the struct as
\* they were; and in every state the one conditional subtraction of
\* __sbi_fifo_enqueue gives (tail + avail) mod num_entries.
C16_EnqueueSlot ==
    /\ \A h \in Handles :
        EnqHead(fifo[h].tail, fifo[h].avail, fifo[h].num_entries)
            = (fifo[h].tail + fifo[h].avail) % fifo[h].num_entries
    /\ \A p \in Procs :
        (At(p, "unlock") /\ Top(p).op = "enqueue" /\ Top(p).ret = 0) =>
            LET head == (Snap(p).tail + Snap(p).avail) % Snap(p).num_entries IN
            /\ Snap(p).avail < Snap(p).num_entries
            /\ F(p) = [Snap(p) EXCEPT
                    !.qlock = p,
                    !.avail = Snap(p).avail + 1,
                    !.queue = WriteSlot(Snap(p).queue, head,
                                        Snap(p).entry_size, Top(p).data)]
            /\ Slot(F(p).queue, head, F(p).entry_size) = Top(p).data
            /\ \A idx \in 0..(F(p).num_entries - 1) :
                idx # head =>
                    Slot(F(p).queue, idx, F(p).entry_size)
                        = Slot(Snap(p).queue, idx, F(p).entry_size)

\* C16 witness: an enqueue has returned 0 having written a slot that is
\* neither slot 0 nor the tail slot, tail + avail being past the end of the
\* buffer, over a stale entry other than the one written.
C16_Witness ==
    \E p \in Procs :
        /\ At(p, "unlock") /\ Top(p).op = "enqueue" /\ Top(p).ret = 0
        /\ Snap(p).tail + Snap(p).avail > Snap(p).num_entries
        /\ LET head == (Snap(p).tail + Snap(p).avail) % Snap(p).num_entries IN
            /\ head # Snap(p).tail
            /\ Slot(Snap(p).queue, head, Snap(p).entry_size) # Top(p).data
            /\ \E j \in 1..Snap(p).entry_size :
                Slot(Snap(p).queue, head, Snap(p).entry_size)[j] # 0

\* C17: a dequeue that returns 0 has put into *data the bytes of the slot at
\* tail, taken 1 from avail and set tail to (tail + 1) mod num_entries,
\* which is 0 exactly when tail was num_entries - 1 (always so when
\* num_entries is 1); the rest of the struct is as it was.
C17_DequeueTail ==
    \A p \in Procs :
        (At(p, "unlock") /\ Top(p).op = "dequeue" /\ Top(p).ret = 0) =>
            /\ Snap(p).avail > 0
            /\ Top(p).data =
                    Slot(Snap(p).queue, Snap(p).tail, Snap(p).entry_size)
            /\ F(p) = [Snap(p) EXCEPT
                    !.qlock = p,
                    !.avail = Snap(p).avail - 1,
                    !.tail = (Snap(p).tail + 1) % Snap(p).num_entries]
            /\ F(p).tail = 0 <=> Snap(p).tail = Snap(p).num_entries - 1
            /\ F(p).tail # 0 => F(p).tail = Snap(p).tail + 1
            /\ Snap(p).num_entries = 1 => (Snap(p).tail = 0 /\ F(p).tail = 0)

\* C17 witness: a dequeue from a fifo of one slot has returned the entry
\* in it, other than what *data held before.
C17_Witness ==
    \E p \in Procs :
        /\ At(p, "unlock") /\ Top(p).op = "dequeue" /\ Top(p).ret = 0
        /\ Snap(p).num_entries = 1
        /\ F(p).tail = 0
        /\ Top(p).data # Top(p).snap.data

\* C18: sbi_fifo_avail returns the number of enqueues that returned 0 less
\* the number of dequeues that returned 0 since sbi_fifo_init or the last
\* reset (the length of the history); sbi_fifo_is_full returns true exactly
\* when that number is num_entries and sbi_fifo_is_empty exactly when it
\* is 0; no fifo is full and empty at once; and the three leave the fifo
\* as they found it.
C18_Observers ==
    /\ \A h \in Handles :
        /\ fifo[h].avail = Len(ghost[h])
        /\ ~(IsFull(fifo[h].avail, fifo[h].num_entries)
                /\ IsEmpty(fifo[h].avail))
    /\ \A p \in Procs :
        (InOp(p, "avail") \/ InOp(p, "is_full") \/ InOp(p, "is_empty")) =>
            /\ F(p) = [Snap(p) EXCEPT !.qlock = p]
            /\ Top(p).pc = "unlock" =>
                LET n == Len(ghost[H(p)]) IN
                /\ Top(p).op = "avail" => Top(p).ret = n
                /\ Top(p).op = "is_full" =>
                    /\ Top(p).ret \in {0, 1}
                    /\ Top(p).ret = 1 <=> n = F(p).num_entries
                /\ Top(p).op = "is_empty" =>
                    /\ Top(p).ret \in {0, 1}
                    /\ Top(p).ret = 1 <=> n = 0

\* C18 witness: sbi_fifo_is_full has returned true for a fifo of two or
\* more slots that has been dequeued from and filled again.
C18_Witness ==
    \E p \in Procs :
        /\ At(p, "unlock") /\ Top(p).op = "is_full"
        /\ Top(p).ret = 1
        /\ F(p).num_entries >= 2
        /\ F(p).tail > 0
        /\ Len(ghost[H(p)]) = F(p).num_entries

\* The indexes of the slots in the occupied region.
OccupiedIdx(f) == {(f.tail + k) % f.num_entries : k \in 0..(f.avail - 1)}

\* C19: a dequeue that returns 0 leaves every byte of the buffer as it
\* was, so the slot it read keeps the entry; a byte that is not 0 becomes 0
\* only in a step of a reset; and the slot a dequeue copies out and the
\* slots handed to fptr are in the occupied region and hold entries of the
\* history, never one left behind by an earlier dequeue.
C19_StaleSlots ==
    /\ [](\A p \in Procs :
            /\ (At(p, "unlock") /\ Top(p).op = "dequeue" /\ Top(p).ret = 0) =>
                /\ F(p).queue = Snap(p).queue
                /\ Snap(p).tail \notin OccupiedIdx(F(p))
            /\ At(p, "deq_dec") =>
                /\ F(p).tail \in OccupiedIdx(F(p))
                /\ Top(p).data = ghost[H(p)][1]
            /\ At(p, "ipu_call") =>
                /\ Top(p).index \in OccupiedIdx(F(p))
                /\ Top(p).i < Len(ghost[H(p)])
                /\ Slot(F(p).queue, Top(p).index, F(p).entry_size)
                        = ghost[H(p)][Top(p).i + 1])
    /\ [][\A h \in Handles : \A k \in DOMAIN fifo[h].queue :
            (fifo[h].queue[k] # 0 /\ fifo'[h].queue[k] = 0) =>
                \E p \in Procs :
                    At(p, "reset") /\ H(p) = h /\ stack'[p] # stack[p]]_vars

\* C19 witness: a dequeue has returned an entry, the slot it read still
\* holds that entry, and the tail slot now holds a different entry of the
\* history.
C19_Witness ==
    \E p \in Procs :
        /\ At(p, "unlock") /\ Top(p).op = "dequeue" /\ Top(p).ret = 0
        /\ Slot(F(p).queue, Snap(p).tail, F(p).entry_size) = Top(p).data
        /\ \E j \in 1..F(p).entry_size : Top(p).data[j] # 0
        /\ F(p).avail > 0
        /\ Slot(F(p).queue, F(p).tail, F(p).entry_size) # Top(p).data

\* C20: sbi_fifo_inplace_update with the fifo or in absent returns
\* SBI_FIFO_UNCHANGED having taken no lock, called fptr on no entry and
\* changed no fifo, whatever the fifo holds.
C20_UpdateAbsent ==
    /\ [](\A p \in Procs :
            (stack[p] # <<>> /\ Top(p).op = "inplace_update"
                /\ (Top(p).fifo = 0 \/ ~Top(p).in)) =>
                    /\ Top(p).pc = "done"
                    /\ Top(p).ret = SBI_FIFO_UNCHANGED
                    /\ Top(p).visited = <<>>
                    /\ Top(p).snap = NoSnap
                    /\ \A h \in Handles : fifo[h].qlock # p)
    /\ [][\A p \in Procs :
            AbsentStep(p, {"inplace_update"}) =>
                /\ fifo' = fifo
                /\ ghost' = ghost
                /\ stack[p] # <<>> => stack'[p] = <<>>]_vars

\* C20 witness: an inplace_update with in absent, of a fifo that holds two
\* entries and whose lock is free, has returned.
C20_Witness ==
    \E p \in Procs :
        /\ At(p, "done")
        /\ Top(p).op = "inplace_update"
        /\ H(p) # 0
        /\ ~Top(p).in
        /\ F(p).avail >= 2
        /\ F(p).qlock = 0

====
